---- MODULE Spec2Model ----
(***************************************************************************)
(* nordigen-cli: the application-token life cycle (authorize, refresh),    *)
(* the credential state file, the bank authorization handshake and the     *)
(* single-shot callback listener.                                          *)
(*                                                                         *)
(* One invocation of the program is one sequential process: pc is its      *)
(* position, and every exit point of the code (std::process::exit, a       *)
(* panic, the normal return of main) brings pc back to "idle" with the     *)
(* outcome in exit/msg.  The files on disk survive between invocations.    *)
(* Time is counted in whole ticks; Utc::now() reads the variable now.      *)
(***************************************************************************)
EXTENDS Integers, Sequences, FiniteSets, TLC

\* ---------------------------------------------------------------- bounds
MaxTime == 3
MaxTTL == 2
MaxTargetLen == 4

\* ------------------------------------------------------------- data sets
AccessTokens == {"a1", "a2"}
RefreshTokens == {"r1", "r2"}
TTLs == 1..MaxTTL

Null ==
    [kind |-> "null", token |-> "", token_expires |-> 0, refresh_token |-> "",
     refresh_expires |-> 0, written_at |-> 0]

\* src/nordigen/state.rs: struct NordigenState
NordigenState(token, token_expires, refresh_token, refresh_expires, written_at) ==
    [kind |-> "state",
     token |-> token,
     token_expires |-> token_expires,
     refresh_token |-> refresh_token,
     refresh_expires |-> refresh_expires,
     written_at |-> written_at]

\* NordigenState::new as called by write_state: the record is stamped with
\* Utc::now() at construction (the struct literal of NordigenState::write).
NordigenState_new(token, token_ttl, refresh, refresh_ttl, t) ==
    NordigenState(token, token_ttl, refresh, refresh_ttl, t)

token_expires_on(st) == st.written_at + st.token_expires

refresh_expires_on(st) == st.written_at + st.refresh_expires

\* Mutant of is_token_expired: expired as soon as the expiry instant is reached.
is_token_expired_inclusive(st, t) == token_expires_on(st) <= t

is_token_expired(st, t) == token_expires_on(st) < t

is_refresh_expired(st, t) == refresh_expires_on(st) < t

\* ------------------------------------------------------- the state file
\* A file is NoFile or the sequence of chunks written to it so far.  A chunk
\* is one JSON token group as serde_json::to_writer_pretty emits it to the
\* unbuffered File: the opening brace, one "key": value member, the closing
\* brace.  A member holds a text (s, a sequence of symbols) or a number (n).
NoFile == <<[k |-> "<nofile>", s |-> <<>>, n |-> 0]>>

Chunk(k, s, n) == [k |-> k, s |-> s, n |-> n]

OpenBrace == Chunk("{", <<>>, 0)
CloseBrace == Chunk("}", <<>>, 0)
Garbage == <<Chunk("garbage", <<>>, 0)>>

FieldNames ==
    {"token", "token_expires", "refresh_token", "refresh_expires", "written_at"}

\* Mutant of Serialize: the two ttls are written under each other's name.
Serialize_swapped_ttls(st) ==
    << OpenBrace,
       Chunk("token", <<st.token>>, 0),
       Chunk("token_expires", <<>>, st.refresh_expires),
       Chunk("refresh_token", <<st.refresh_token>>, 0),
       Chunk("refresh_expires", <<>>, st.token_expires),
       Chunk("written_at", <<>>, st.written_at),
       CloseBrace >>

\* #[derive(Serialize)] for NordigenState, fields in declaration order
Serialize(st) ==
    << OpenBrace,
       Chunk("token", <<st.token>>, 0),
       Chunk("token_expires", <<>>, st.token_expires),
       Chunk("refresh_token", <<st.refresh_token>>, 0),
       Chunk("refresh_expires", <<>>, st.refresh_expires),
       Chunk("written_at", <<>>, st.written_at),
       CloseBrace >>

FieldIdx(bytes, key) == {i \in 2..(Len(bytes) - 1) : bytes[i].k = key}

Field(bytes, key) == bytes[CHOOSE i \in FieldIdx(bytes, key) : TRUE]

\* serde_json::from_str::<NordigenState>: a complete JSON object in which
\* every field occurs exactly once (unknown members are ignored)
Decodable(bytes) ==
    /\ bytes # NoFile
    /\ Len(bytes) >= 2
    /\ bytes[1] = OpenBrace
    /\ bytes[Len(bytes)] = CloseBrace
    /\ \A i \in 2..(Len(bytes) - 1) : bytes[i].k \notin {"{", "}", "garbage"}
    /\ \A key \in FieldNames : Cardinality(FieldIdx(bytes, key)) = 1
    /\ Len(Field(bytes, "token").s) = 1
    /\ Len(Field(bytes, "refresh_token").s) = 1

Deserialize(bytes) ==
    NordigenState(Field(bytes, "token").s[1],
                  Field(bytes, "token_expires").n,
                  Field(bytes, "refresh_token").s[1],
                  Field(bytes, "refresh_expires").n,
                  Field(bytes, "written_at").n)

\* get_state: NotFound when the path does not exist, InvalidData when it
\* cannot be read or parsed
get_state(bytes) ==
    IF bytes = NoFile THEN [ok |-> FALSE, err |-> "NotFound", state |-> Null]
    ELSE IF ~Decodable(bytes)
         THEN [ok |-> FALSE, err |-> "InvalidData", state |-> Null]
         ELSE [ok |-> TRUE, err |-> "", state |-> Deserialize(bytes)]

\* ------------------------------------------------------------ variables
VARIABLES
    now,          \* the wall clock read by Utc::now()
    stateFile,    \* contents of the credential state file (cmd.state)
    bankFile,     \* contents of the bank authorization file (cmd.auth)
    pc,           \* position of the running invocation, "idle" when none runs
    cmd,          \* the command of the current (or last) invocation
    state,        \* do_authorize / do_refresh / do_bank_authorization: state
    wargs,        \* write_state: its arguments (token, refresh, ttls)
    reply,        \* the provider's reply to the one POST of this invocation
    newState,     \* write_state: the NordigenState it constructs
    wbuf,         \* to_writer_pretty: the chunks still to be written
    exit,         \* how the invocation ended
    msg,          \* the last message the invocation printed
    calls,        \* requests sent to the provider by this invocation
    tokChk,       \* what is_token_expired() answered in this invocation
    refChk,       \* what is_refresh_expired() answered in this invocation
    tokChkAt,     \* the Utc::now() value is_token_expired() compared against
    refChkAt,     \* the Utc::now() value is_refresh_expired() compared against
    fileAtStart,  \* stateFile when the invocation started
    bankAtStart,  \* bankFile when the invocation started
    auth,         \* banks::Authorize: the pending handshake
    requisition,  \* do_bank_authorization: what wait_callback returned
    lpc,          \* wait_for_response: position of the listener
    accepted,     \* wait_for_response: connections taken from incoming()
    request,      \* wait_for_response: the request lines read
    res,          \* wait_for_response: its result
    respWritten,  \* send_response: stream.write was issued on the connection
    cbResult      \* what wait_for_response returned to its caller

tokenVars == <<state, wargs, reply, newState, wbuf, tokChk, refChk, tokChkAt, refChkAt>>
bankVars == <<auth, requisition, cbResult>>
listenerVars == <<lpc, accepted, request, res, respWritten>>
runVars == <<pc, cmd, exit, msg, calls, fileAtStart, bankAtStart>>
vars == <<now, stateFile, bankFile, runVars, tokenVars, bankVars, listenerVars>>

NoCalls == [issue |-> 0, refresh |-> 0, consent |-> 0]
NoArgs == [token |-> "", refresh |-> "", token_ttl |-> 0, refresh_ttl |-> 0]
\* No reply received; a RefreshReply leaves the two refresh fields as here.
NoReply == [access |-> "", access_expires |-> 0, refresh |-> "", refresh_expires |-> 0]
NoResult == [ok |-> FALSE, val |-> <<>>, err |-> "none"]
NoAuth == [bank_id |-> "", requisition_id |-> "", reference |-> <<>>]

\* Files the state path may hold before the first invocation: nothing, a file
\* that is not a state record, an empty file, or a record written at time 0.
InitialStates ==
    {NordigenState("a1", ta, "r1", tr, 0) : ta \in TTLs, tr \in TTLs}

InitialFiles ==
    {NoFile, Garbage, <<>>} \cup {Serialize(st) : st \in InitialStates}

LocalsInit ==
    /\ state = Null
    /\ wargs = NoArgs
    /\ reply = NoReply
    /\ newState = Null
    /\ wbuf = <<>>
    /\ tokChk = "na"
    /\ refChk = "na"
    /\ tokChkAt = 0
    /\ refChkAt = 0
    /\ auth = NoAuth
    /\ requisition = NoAuth
    /\ cbResult = NoResult
    /\ lpc = "off"
    /\ accepted = 0
    /\ request = <<>>
    /\ res = NoResult
    /\ respWritten = FALSE

Init ==
    /\ now = 0
    /\ stateFile \in InitialFiles
    /\ bankFile = NoFile
    /\ pc = "idle"
    /\ cmd = "none"
    /\ exit = "none"
    /\ msg = ""
    /\ calls = NoCalls
    /\ fileAtStart = stateFile
    /\ bankAtStart = bankFile
    /\ LocalsInit

\* ----------------------------------------------------------- environment
\* Points of the code right before a Utc::now() read (and between
\* invocations): time passing anywhere else is observed only there.
ClockReadPoints ==
    {"idle", "auth_refresh_chk", "auth_token_chk", "ref_token_chk",
     "ref_refresh_chk", "ws_open", "bank_token_chk"}

Tick ==
    /\ pc \in ClockReadPoints
    /\ now < MaxTime
    /\ now' = now + 1
    /\ UNCHANGED <<stateFile, bankFile, runVars, tokenVars, bankVars, listenerVars>>

\* std::process::exit(code), a panic, or main returning
Exit(code, m) ==
    /\ pc' = "idle"
    /\ exit' = code
    /\ msg' = m

\* A new invocation: all locals are fresh.
Start(c, first) ==
    /\ pc = "idle"
    /\ pc' = first
    /\ cmd' = c
    /\ exit' = "running"
    /\ msg' = ""
    /\ calls' = NoCalls
    /\ fileAtStart' = stateFile
    /\ bankAtStart' = bankFile
    /\ state' = Null
    /\ wargs' = NoArgs
    /\ reply' = NoReply
    /\ newState' = Null
    /\ wbuf' = <<>>
    /\ tokChk' = "na"
    /\ refChk' = "na"
    /\ tokChkAt' = 0
    /\ refChkAt' = 0
    /\ auth' = NoAuth
    /\ requisition' = NoAuth
    /\ cbResult' = NoResult
    /\ lpc' = "off"
    /\ accepted' = 0
    /\ request' = <<>>
    /\ res' = NoResult
    /\ respWritten' = FALSE
    /\ UNCHANGED <<now, stateFile, bankFile>>

\* The process is killed (signal, power loss) at any point of an invocation.
Interrupt ==
    /\ pc # "idle"
    /\ Exit("killed", msg)
    /\ UNCHANGED <<now, stateFile, bankFile, cmd, calls, fileAtStart, bankAtStart,
                   tokenVars, bankVars, listenerVars>>

YesNo(b) == IF b THEN "yes" ELSE "no"

\* ------------------------------------------------------------ provider
\* POST /token/new/ answers with any token pair and ttls (AuthorizeReply)
AuthorizeReplies ==
    [access : AccessTokens, access_expires : TTLs,
     refresh : RefreshTokens, refresh_expires : TTLs]

\* POST /token/refresh/ answers with a new access token and ttl (RefreshReply)
RefreshReplies == [access : AccessTokens, access_expires : TTLs]

\* ---------------------------------------------------------- write_state
\* Mutant of WriteStateOpen: a record that was loaded keeps its timestamp.
WriteStateOpen_keeping_timestamp ==
    /\ pc = "ws_open"
    /\ newState' = NordigenState_new(wargs.token, wargs.token_ttl,
                                     wargs.refresh, wargs.refresh_ttl,
                                     IF state = Null THEN now ELSE state.written_at)
    /\ \/ /\ stateFile' = <<>>
          /\ wbuf' = Serialize(newState')
          /\ pc' = "ws_write"
          /\ UNCHANGED <<exit, msg>>
       \/ /\ Exit("exit1", "Unable to write state")
          /\ UNCHANGED <<stateFile, wbuf>>
    /\ UNCHANGED <<now, bankFile, cmd, calls, fileAtStart, bankAtStart, state,
                   wargs, reply, tokChk, refChk, tokChkAt, refChkAt, bankVars, listenerVars>>

\* write_state, first half: NordigenState::new stamps the record with the
\* current time, then File::create truncates (or creates) the file.
WriteStateOpen ==
    /\ pc = "ws_open"
    /\ newState' = NordigenState_new(wargs.token, wargs.token_ttl,
                                     wargs.refresh, wargs.refresh_ttl, now)
    /\ \/ /\ stateFile' = <<>>
          /\ wbuf' = Serialize(newState')
          /\ pc' = "ws_write"
          /\ UNCHANGED <<exit, msg>>
       \/ /\ Exit("exit1", "Unable to write state")
          /\ UNCHANGED <<stateFile, wbuf>>
    /\ UNCHANGED <<now, bankFile, cmd, calls, fileAtStart, bankAtStart, state,
                   wargs, reply, tokChk, refChk, tokChkAt, refChkAt, bankVars, listenerVars>>

\* write_state, second half: serde_json::to_writer_pretty writes the record
\* chunk by chunk; after the last chunk the command prints its result and
\* main returns.
WriteStateChunk ==
    /\ pc = "ws_write"
    /\ wbuf # <<>>
    /\ \/ /\ stateFile' = Append(stateFile, Head(wbuf))
          /\ wbuf' = Tail(wbuf)
          /\ IF Tail(wbuf) = <<>>
             THEN Exit("returned",
                       IF cmd = "refresh" THEN "Successfully refreshed"
                       ELSE "Obtained authorization token")
             ELSE UNCHANGED <<pc, exit, msg>>
       \/ /\ Exit("exit1", "Unable to write state")
          /\ UNCHANGED <<stateFile, wbuf>>
    /\ UNCHANGED <<now, bankFile, cmd, calls, fileAtStart, bankAtStart, state,
                   wargs, reply, newState, tokChk, refChk, tokChkAt, refChkAt, bankVars, listenerVars>>

\* ---------------------------------------------------------- do_authorize
StartAuthorize == Start("authorize", "auth_exists")

\* Mutant of AuthExists: a file that does not parse is treated like no file.
AuthExists_ignoring_corrupt ==
    /\ pc = "auth_exists"
    /\ IF stateFile # NoFile /\ Decodable(stateFile)
       THEN /\ state' = Deserialize(stateFile)
            /\ pc' = "auth_refresh_chk"
       ELSE /\ pc' = "auth_config"
            /\ UNCHANGED state
    /\ UNCHANGED <<now, stateFile, bankFile, cmd, exit, msg, calls, fileAtStart,
                   bankAtStart, wargs, reply, newState, wbuf, tokChk, refChk, tokChkAt,
                   refChkAt, bankVars, listenerVars>>

\* cmd.state.exists() and parse_state
AuthExists ==
    /\ pc = "auth_exists"
    /\ IF stateFile = NoFile
       THEN /\ pc' = "auth_config"
            /\ UNCHANGED <<state, exit, msg>>
       ELSE IF Decodable(stateFile)
            THEN /\ state' = Deserialize(stateFile)
                 /\ pc' = "auth_refresh_chk"
                 /\ UNCHANGED <<exit, msg>>
            ELSE /\ Exit("exit1", "Error obtaining on-disk state")
                 /\ UNCHANGED state
    /\ UNCHANGED <<now, stateFile, bankFile, cmd, calls, fileAtStart, bankAtStart,
                   wargs, reply, newState, wbuf, tokChk, refChk, tokChkAt, refChkAt, bankVars,
                   listenerVars>>

\* if state.is_refresh_expired()
AuthRefreshChk ==
    /\ pc = "auth_refresh_chk"
    /\ refChk' = YesNo(is_refresh_expired(state, now))
    /\ refChkAt' = now
    /\ IF is_refresh_expired(state, now)
       THEN /\ pc' = "auth_config"
            /\ msg' = "Refresh token has expired!"
       ELSE /\ pc' = "auth_token_chk"
            /\ UNCHANGED msg
    /\ UNCHANGED <<now, stateFile, bankFile, cmd, exit, calls, fileAtStart,
                   bankAtStart, state, wargs, reply, newState, wbuf, tokChk, tokChkAt, bankVars,
                   listenerVars>>

\* Mutant of AuthTokenChk: an expired access token leads to a new authorization.
AuthTokenChk_reauthorizing ==
    /\ pc = "auth_token_chk"
    /\ tokChk' = YesNo(is_token_expired(state, now))
    /\ tokChkAt' = now
    /\ IF is_token_expired(state, now)
       THEN /\ pc' = "auth_config"
            /\ UNCHANGED <<exit, msg>>
       ELSE Exit("exit0", "Authorization still valid")
    /\ UNCHANGED <<now, stateFile, bankFile, cmd, calls, fileAtStart, bankAtStart,
                   state, wargs, reply, newState, wbuf, refChk, refChkAt, bankVars,
                   listenerVars>>

\* else if state.is_token_expired() ... else ...: both branches exit(0)
AuthTokenChk ==
    /\ pc = "auth_token_chk"
    /\ tokChk' = YesNo(is_token_expired(state, now))
    /\ tokChkAt' = now
    /\ IF is_token_expired(state, now)
       THEN Exit("exit0", "Access token expired. Please refresh!")
       ELSE Exit("exit0", "Authorization still valid")
    /\ UNCHANGED <<now, stateFile, bankFile, cmd, calls, fileAtStart, bankAtStart,
                   state, wargs, reply, newState, wbuf, refChk, refChkAt, bankVars, listenerVars>>

\* parse_config: the config file is there and parses, or the command exits
AuthConfig ==
    /\ pc = "auth_config"
    /\ \/ /\ pc' = "auth_request"
          /\ UNCHANGED <<exit, msg>>
       \/ Exit("exit1", "Error parsing config")
    /\ UNCHANGED <<now, stateFile, bankFile, cmd, calls, fileAtStart, bankAtStart,
                   tokenVars, bankVars, listenerVars>>

\* Mutant of AuthRequest: the state file is created before the request is sent.
AuthRequest_creating_first ==
    /\ pc = "auth_request"
    /\ calls' = [calls EXCEPT !.issue = @ + 1]
    /\ stateFile' = <<>>
    /\ \/ /\ \E m \in {"Unable to obtain token", "Unable to obtain response value"} :
                Exit("exit1", m)
          /\ UNCHANGED <<wargs, reply>>
       \/ /\ \E r \in AuthorizeReplies :
                /\ reply' = r
                /\ wargs' = [token |-> r.access, refresh |-> r.refresh,
                             token_ttl |-> r.access_expires,
                             refresh_ttl |-> r.refresh_expires]
          /\ pc' = "ws_open"
          /\ UNCHANGED <<exit, msg>>
    /\ UNCHANGED <<now, bankFile, cmd, fileAtStart, bankAtStart, state, newState,
                   wbuf, tokChk, refChk, tokChkAt, refChkAt, bankVars, listenerVars>>

\* authorize::authorize: one POST; the send fails, the reply does not decode,
\* or it yields an AuthorizeReply that is handed to write_state
AuthRequest ==
    /\ pc = "auth_request"
    /\ calls' = [calls EXCEPT !.issue = @ + 1]
    /\ \/ /\ \E m \in {"Unable to obtain token", "Unable to obtain response value"} :
                Exit("exit1", m)
          /\ UNCHANGED <<wargs, reply>>
       \/ /\ \E r \in AuthorizeReplies :
                /\ reply' = r
                /\ wargs' = [token |-> r.access, refresh |-> r.refresh,
                             token_ttl |-> r.access_expires,
                             refresh_ttl |-> r.refresh_expires]
          /\ pc' = "ws_open"
          /\ UNCHANGED <<exit, msg>>
    /\ UNCHANGED <<now, stateFile, bankFile, cmd, fileAtStart, bankAtStart, state,
                   newState, wbuf, tokChk, refChk, tokChkAt, refChkAt, bankVars, listenerVars>>

\* ------------------------------------------------------------ do_refresh
StartRefresh == Start("refresh", "ref_load")

\* Mutant of RefLoad: a missing state file is created empty before the
\* error is reported.
RefLoad_creating_missing ==
    /\ pc = "ref_load"
    /\ stateFile' = IF stateFile = NoFile THEN <<>> ELSE stateFile
    /\ LET got == get_state(stateFile) IN
         IF got.ok
         THEN /\ state' = got.state
              /\ pc' = "ref_token_chk"
              /\ UNCHANGED <<exit, msg>>
         ELSE /\ Exit("exit1", got.err)
              /\ UNCHANGED state
    /\ UNCHANGED <<now, bankFile, cmd, calls, fileAtStart, bankAtStart,
                   wargs, reply, newState, wbuf, tokChk, refChk, tokChkAt, refChkAt, bankVars,
                   listenerVars>>

\* get_state_or_exit
RefLoad ==
    /\ pc = "ref_load"
    /\ LET got == get_state(stateFile) IN
         IF got.ok
         THEN /\ state' = got.state
              /\ pc' = "ref_token_chk"
              /\ UNCHANGED <<exit, msg>>
         ELSE /\ Exit("exit1", got.err)
              /\ UNCHANGED state
    /\ UNCHANGED <<now, stateFile, bankFile, cmd, calls, fileAtStart, bankAtStart,
                   wargs, reply, newState, wbuf, tokChk, refChk, tokChkAt, refChkAt, bankVars,
                   listenerVars>>

\* Mutant of RefTokenChk: no early exit for a token that is still valid.
RefTokenChk_always_refreshing ==
    /\ pc = "ref_token_chk"
    /\ tokChk' = YesNo(is_token_expired(state, now))
    /\ tokChkAt' = now
    /\ pc' = "ref_refresh_chk"
    /\ UNCHANGED <<now, stateFile, bankFile, cmd, exit, msg, calls, fileAtStart,
                   bankAtStart, state, wargs, reply, newState, wbuf, refChk, refChkAt,
                   bankVars, listenerVars>>

\* if !state.is_token_expired() { exit(0) }
RefTokenChk ==
    /\ pc = "ref_token_chk"
    /\ tokChk' = YesNo(is_token_expired(state, now))
    /\ tokChkAt' = now
    /\ IF ~is_token_expired(state, now)
       THEN Exit("exit0", "Token is still valid")
       ELSE /\ pc' = "ref_refresh_chk"
            /\ UNCHANGED <<exit, msg>>
    /\ UNCHANGED <<now, stateFile, bankFile, cmd, calls, fileAtStart, bankAtStart,
                   state, wargs, reply, newState, wbuf, refChk, refChkAt, bankVars, listenerVars>>

\* Mutant of RefRefreshChk: the refresh is attempted with an expired token.
RefRefreshChk_not_exiting ==
    /\ pc = "ref_refresh_chk"
    /\ refChk' = YesNo(is_refresh_expired(state, now))
    /\ refChkAt' = now
    /\ pc' = "ref_request"
    /\ UNCHANGED <<now, stateFile, bankFile, cmd, exit, msg, calls, fileAtStart,
                   bankAtStart, state, wargs, reply, newState, wbuf, tokChk, tokChkAt,
                   bankVars, listenerVars>>

\* else if state.is_refresh_expired() { exit(1) }
RefRefreshChk ==
    /\ pc = "ref_refresh_chk"
    /\ refChk' = YesNo(is_refresh_expired(state, now))
    /\ refChkAt' = now
    /\ IF is_refresh_expired(state, now)
       THEN Exit("exit1", "Refresh token has expired")
       ELSE /\ pc' = "ref_request"
            /\ UNCHANGED <<exit, msg>>
    /\ UNCHANGED <<now, stateFile, bankFile, cmd, calls, fileAtStart, bankAtStart,
                   state, wargs, reply, newState, wbuf, tokChk, tokChkAt, bankVars, listenerVars>>

\* Mutant of RefreshArgs: the ttl of the reply is used for both tokens.
RefreshArgs_reply_ttl(st, r) ==
    [token |-> r.access, refresh |-> st.refresh_token,
     token_ttl |-> r.access_expires, refresh_ttl |-> r.access_expires]

\* The arguments do_refresh hands to write_state: the new token and ttl of
\* the reply, the refresh token and refresh ttl of the loaded state.
RefreshArgs(st, r) ==
    [token |-> r.access, refresh |-> st.refresh_token,
     token_ttl |-> r.access_expires, refresh_ttl |-> st.refresh_expires]

\* Mutant of RefRequest: the state file is opened for writing before the
\* request is sent.
RefRequest_creating_first ==
    /\ pc = "ref_request"
    /\ calls' = [calls EXCEPT !.refresh = @ + 1]
    /\ stateFile' = <<>>
    /\ \/ /\ \E m \in {"Unable to refresh token", "Unable to obtain response value"} :
                Exit("exit1", m)
          /\ UNCHANGED <<wargs, reply>>
       \/ /\ \E r \in RefreshReplies :
                /\ reply' = [NoReply EXCEPT !.access = r.access,
                                            !.access_expires = r.access_expires]
                /\ wargs' = RefreshArgs(state, r)
          /\ pc' = "ws_open"
          /\ UNCHANGED <<exit, msg>>
    /\ UNCHANGED <<now, bankFile, cmd, fileAtStart, bankAtStart, state,
                   newState, wbuf, tokChk, refChk, tokChkAt, refChkAt, bankVars, listenerVars>>

\* Mutant of RefRequest: a failed request is sent again.
RefRequest_retrying ==
    /\ pc = "ref_request"
    /\ calls' = [calls EXCEPT !.refresh = @ + 1]
    /\ \/ UNCHANGED <<pc, exit, msg, wargs, reply>>
       \/ /\ \E r \in RefreshReplies :
                /\ reply' = [NoReply EXCEPT !.access = r.access,
                                            !.access_expires = r.access_expires]
                /\ wargs' = RefreshArgs(state, r)
          /\ pc' = "ws_open"
          /\ UNCHANGED <<exit, msg>>
    /\ UNCHANGED <<now, stateFile, bankFile, cmd, fileAtStart, bankAtStart, state,
                   newState, wbuf, tokChk, refChk, tokChkAt, refChkAt, bankVars, listenerVars>>

\* authorize::refresh: one POST with the stored refresh token
RefRequest ==
    /\ pc = "ref_request"
    /\ calls' = [calls EXCEPT !.refresh = @ + 1]
    /\ \/ /\ \E m \in {"Unable to refresh token", "Unable to obtain response value"} :
                Exit("exit1", m)
          /\ UNCHANGED <<wargs, reply>>
       \/ /\ \E r \in RefreshReplies :
                /\ reply' = [NoReply EXCEPT !.access = r.access,
                                            !.access_expires = r.access_expires]
                /\ wargs' = RefreshArgs(state, r)
          /\ pc' = "ws_open"
          /\ UNCHANGED <<exit, msg>>
    /\ UNCHANGED <<now, stateFile, bankFile, cmd, fileAtStart, bankAtStart, state,
                   newState, wbuf, tokChk, refChk, tokChkAt, refChkAt, bankVars, listenerVars>>

\* ------------------------------------------------ the callback listener
\* A request line is the sequence of its whitespace-separated tokens
\* (split_whitespace); a token is a sequence of symbols.  The symbols of a
\* target are the three separators, the parameter name ref, and x for any
\* other text.
Atoms == {"?", "&", "=", "ref", "x"}

SeqsUpTo(S, n) == UNION {[1..k -> S] : k \in 1..n}

Targets == SeqsUpTo(Atoms, MaxTargetLen)

GET == <<"G", "E", "T">>

Methods == {<<"G", "E", "T">>, <<"g", "e", "t">>, <<"P", "O", "S", "T">>}

HttpVersion == <<"HTTP/1.1">>

\* a blank (whitespace only) line, a lone method, method and target, and the
\* full request line
RequestLines ==
    {<<>>}
      \cup {<<m>> : m \in Methods}
      \cup {<<m, <<a>>>> : m \in Methods, a \in Atoms}
      \cup {<<m, t, HttpVersion>> : m \in Methods, t \in Targets}

\* what the listener can read up to the first empty line: nothing, or a
\* request line
Requests == {<<>>} \cup {<<l>> : l \in RequestLines}

LowerChar(c) ==
    CASE c = "G" -> "g"
      [] c = "E" -> "e"
      [] c = "T" -> "t"
      [] c = "P" -> "p"
      [] c = "O" -> "o"
      [] c = "S" -> "s"
      [] OTHER -> c

to_lowercase(w) == [i \in 1..Len(w) |-> LowerChar(w[i])]

\* str::find: the first position of c in w, 0 when there is none
find(w, c) ==
    IF \E i \in 1..Len(w) : w[i] = c
    THEN CHOOSE i \in 1..Len(w) : w[i] = c /\ \A j \in 1..(i - 1) : w[j] # c
    ELSE 0

\* str::split: the pieces between the separators, empty pieces included
RECURSIVE split(_, _)
split(w, sep) ==
    IF find(w, sep) = 0 THEN <<w>>
    ELSE <<SubSeq(w, 1, find(w, sep) - 1)>>
            \o split(SubSeq(w, find(w, sep) + 1, Len(w)), sep)

\* Mutant of MapInsert: a key already present keeps its first value
\* (entry(key).or_insert(value)).
MapInsert_keep_first(map, key, value) ==
    [k \in (DOMAIN map) \cup {key} |-> IF k \in DOMAIN map THEN map[k] ELSE value]

\* HashMap::insert
MapInsert(map, key, value) ==
    [k \in (DOMAIN map) \cup {key} |-> IF k = key THEN value ELSE map[k]]

EmptyMap == [k \in {} |-> <<>>]

\* Mutant of InsertPairs: a piece that does not split into two parts ends
\* the loop (break for continue).
RECURSIVE InsertPairs_stopping(_, _)
InsertPairs_stopping(map, pieces) ==
    IF pieces = <<>> THEN map
    ELSE LET kv == split(Head(pieces), "=") IN
           IF Len(kv) # 2 THEN map
           ELSE InsertPairs_stopping(MapInsert(map, kv[1], kv[2]), Tail(pieces))

\* the closure of parse_request, applied to the pieces in order: a piece
\* that does not split into exactly two parts is skipped
RECURSIVE InsertPairs(_, _)
InsertPairs(map, pieces) ==
    IF pieces = <<>> THEN map
    ELSE LET kv == split(Head(pieces), "=") IN
           IF Len(kv) # 2 THEN InsertPairs(map, Tail(pieces))
           ELSE InsertPairs(MapInsert(map, kv[1], kv[2]), Tail(pieces))

ParseErr(e) == [ok |-> FALSE, map |-> EmptyMap, err |-> e]

\* Mutant of parse_request: the method of the request line is not looked at.
parse_request_any_method(req) ==
    IF Len(req) = 0 THEN ParseErr("empty request")
    ELSE IF Len(req[1]) < 3 THEN ParseErr("Unexpected request line")
    ELSE LET target == req[1][2]
             pos == find(target, "?")
         IN  IF pos = 0 THEN ParseErr("No parameters provided!")
             ELSE IF Len(target) < pos THEN ParseErr("Parameters not provided.")
             ELSE [ok |-> TRUE,
                   map |-> InsertPairs(EmptyMap,
                                       split(SubSeq(target, pos + 1, Len(target)), "&")),
                   err |-> ""]

parse_request(req) ==
    IF Len(req) = 0 THEN ParseErr("empty request")
    ELSE IF Len(req[1]) < 3 THEN ParseErr("Unexpected request line")
    ELSE LET method == req[1][1]
             target == req[1][2]
             pos == find(target, "?")
         IN  IF to_lowercase(method) # <<"g", "e", "t">>
             THEN ParseErr("Unexpected method")
             ELSE IF pos = 0 THEN ParseErr("No parameters provided!")
             ELSE IF Len(target) < pos THEN ParseErr("Parameters not provided.")
             ELSE [ok |-> TRUE,
                   map |-> InsertPairs(EmptyMap,
                                       split(SubSeq(target, pos + 1, Len(target)), "&")),
                   err |-> ""]

\* Mutant of ListenerResult: a map without ref yields Ok of the empty string
\* (map.get("ref").cloned().unwrap_or_default()).
ListenerResult_defaulting(req) ==
    LET parsed == parse_request(req) IN
      IF ~parsed.ok THEN [ok |-> FALSE, val |-> <<>>, err |-> parsed.err]
      ELSE IF <<"ref">> \in DOMAIN parsed.map
           THEN [ok |-> TRUE, val |-> parsed.map[<<"ref">>], err |-> ""]
           ELSE [ok |-> TRUE, val |-> <<>>, err |-> ""]

\* the match of wait_for_response on the result of parse_request
ListenerResult(req) ==
    LET parsed == parse_request(req) IN
      IF ~parsed.ok THEN [ok |-> FALSE, val |-> <<>>, err |-> parsed.err]
      ELSE IF <<"ref">> \in DOMAIN parsed.map
           THEN [ok |-> TRUE, val |-> parsed.map[<<"ref">>], err |-> ""]
           ELSE [ok |-> FALSE, val |-> <<>>, err |-> "Callback did not provide ref"]

\* Mutant of ListenerBind: the listener is bound before the consent is
\* started.
ListenerBind_before_start ==
    /\ pc \in {"bank_start", "bank_wait"}
    /\ lpc = "off"
    /\ \/ /\ lpc' = "listening"
          /\ UNCHANGED <<pc, exit, msg>>
       \/ /\ Exit("panic", "bind failed")
          /\ UNCHANGED lpc
    /\ UNCHANGED <<now, stateFile, bankFile, cmd, calls, fileAtStart, bankAtStart,
                   tokenVars, bankVars, accepted, request, res, respWritten>>

\* TcpListener::bind("127.0.0.1:1337").unwrap(): the port is free, or the
\* unwrap panics
ListenerBind ==
    /\ pc = "bank_wait"
    /\ lpc = "off"
    /\ \/ /\ lpc' = "listening"
          /\ UNCHANGED <<pc, exit, msg>>
       \/ /\ Exit("panic", "bind failed")
          /\ UNCHANGED lpc
    /\ UNCHANGED <<now, stateFile, bankFile, cmd, calls, fileAtStart, bankAtStart,
                   tokenVars, bankVars, accepted, request, res, respWritten>>

\* listener.incoming().filter_map(Result::ok).take(1).next(): blocks until
\* one connection is accepted.  The client behind the connection either
\* lets the reading loop finish (it sends a blank line, closes, or the read
\* errs: "accepted"), or sends nothing more and keeps the connection open
\* ("stalled"): the stream has no read timeout, so lines() then blocks.
ListenerAccept ==
    /\ pc = "bank_wait"
    /\ lpc = "listening"
    /\ accepted' = accepted + 1
    /\ lpc' \in {"accepted", "stalled"}
    /\ UNCHANGED <<now, stateFile, bankFile, runVars, tokenVars, bankVars, request,
                   res, respWritten>>

\* The lines are read up to the first empty line and parsed into res; a read
\* error makes the unwrap in the reading loop panic.  reqs is the set of
\* requests the client may send.
ListenerReadFrom(reqs) ==
    /\ pc = "bank_wait"
    /\ lpc = "accepted"
    /\ \/ /\ \E req \in reqs :
                /\ request' = req
                /\ res' = ListenerResult(req)
          /\ lpc' = "parsed"
          /\ UNCHANGED <<pc, exit, msg>>
       \/ /\ Exit("panic", "read failed")
          /\ UNCHANGED <<lpc, request, res>>
    /\ UNCHANGED <<now, stateFile, bankFile, cmd, calls, fileAtStart, bankAtStart,
                   tokenVars, bankVars, accepted, respWritten>>

ListenerRead == ListenerReadFrom(Requests)

\* Mutant of ListenerRespond: the confirmation is sent only for a request
\* that carried a ref.
ListenerRespond_only_on_ok ==
    /\ pc = "bank_wait"
    /\ lpc = "parsed"
    /\ respWritten' = res.ok
    /\ lpc' = "responded"
    /\ UNCHANGED <<now, stateFile, bankFile, runVars, tokenVars, bankVars, accepted,
                   request, res>>

\* send_response(&mut stream): the fixed 200 OK page is written to the stream
ListenerRespond ==
    /\ pc = "bank_wait"
    /\ lpc = "parsed"
    /\ respWritten' = TRUE
    /\ lpc' = "responded"
    /\ UNCHANGED <<now, stateFile, bankFile, runVars, tokenVars, bankVars, accepted,
                   request, res>>

\* Mutant of ListenerReturn: the listener keeps serving (for stream in
\* listener.incoming()) and hands out the result of each connection.
ListenerReturn_relistening ==
    /\ pc = "bank_wait"
    /\ lpc = "responded"
    /\ cbResult' = res
    /\ request' = <<>>
    /\ lpc' = "listening"
    /\ respWritten' = FALSE
    /\ UNCHANGED <<now, stateFile, bankFile, runVars, tokenVars, auth, requisition,
                   accepted, res>>

\* return res: the listener and its locals are dropped
ListenerReturn ==
    /\ pc = "bank_wait"
    /\ lpc = "responded"
    /\ cbResult' = res
    /\ request' = <<>>
    /\ lpc' = "done"
    /\ pc' = "bank_callback"
    /\ UNCHANGED <<now, stateFile, bankFile, cmd, exit, msg, calls, fileAtStart,
                   bankAtStart, tokenVars, auth, requisition, accepted, res, respWritten>>

\* ------------------------------------------------- do_bank_authorization
BankIds == {"bank1"}
RequisitionIds == {"q1"}
References == {<<"x">>, <<"x", "x">>}

\* banks::Authorize::start (startBankConsent): the provider creates a
\* requisition and issues the reference the callback has to bring back
PendingHandshakes ==
    [bank_id : BankIds, requisition_id : RequisitionIds, reference : References]

\* banks::Authorize::wait_callback: the reference the listener returned is
\* compared with the one issued; a listener failure or another reference is
\* an error
wait_callback(result, pending) ==
    IF result.ok /\ result.val = pending.reference
    THEN [ok |-> TRUE, requisition |-> pending]
    ELSE [ok |-> FALSE, requisition |-> NoAuth]

\* BankAuthState as written by write_bank
SerializeBank(b) ==
    << OpenBrace,
       Chunk("bank_id", <<b.bank_id>>, 0),
       Chunk("requisition_id", <<b.requisition_id>>, 0),
       Chunk("reference", b.reference, 0),
       CloseBrace >>

StartBankAuthorize == Start("bank_authorize", "bank_load")

\* get_state_or_exit
BankLoad ==
    /\ pc = "bank_load"
    /\ LET got == get_state(stateFile) IN
         IF got.ok
         THEN /\ state' = got.state
              /\ pc' = "bank_token_chk"
              /\ UNCHANGED <<exit, msg>>
         ELSE /\ Exit("exit1", got.err)
              /\ UNCHANGED state
    /\ UNCHANGED <<now, stateFile, bankFile, cmd, calls, fileAtStart, bankAtStart,
                   wargs, reply, newState, wbuf, tokChk, refChk, tokChkAt, refChkAt,
                   bankVars, listenerVars>>

\* Mutant of BankTokenChk: an expired token is reported and the handshake
\* goes on.
BankTokenChk_not_exiting ==
    /\ pc = "bank_token_chk"
    /\ tokChk' = YesNo(is_token_expired(state, now))
    /\ tokChkAt' = now
    /\ pc' = "bank_start"
    /\ UNCHANGED <<exit, msg>>
    /\ UNCHANGED <<now, stateFile, bankFile, cmd, calls, fileAtStart, bankAtStart,
                   state, wargs, reply, newState, wbuf, refChk, refChkAt, bankVars,
                   listenerVars>>

\* if state.is_token_expired() { exit(1) }
BankTokenChk ==
    /\ pc = "bank_token_chk"
    /\ tokChk' = YesNo(is_token_expired(state, now))
    /\ tokChkAt' = now
    /\ IF is_token_expired(state, now)
       THEN Exit("exit1", "Token has expired")
       ELSE /\ pc' = "bank_start"
            /\ UNCHANGED <<exit, msg>>
    /\ UNCHANGED <<now, stateFile, bankFile, cmd, calls, fileAtStart, bankAtStart,
                   state, wargs, reply, newState, wbuf, refChk, refChkAt, bankVars,
                   listenerVars>>

\* Mutant of BankStart: the bank file is created when the handshake starts.
BankStart_creating_first ==
    /\ pc = "bank_start"
    /\ calls' = [calls EXCEPT !.consent = @ + 1]
    /\ bankFile' = <<>>
    /\ \/ /\ Exit("exit1", "Error starting authorization")
          /\ UNCHANGED auth
       \/ /\ \E h \in PendingHandshakes : auth' = h
          /\ pc' = "bank_wait"
          /\ UNCHANGED <<exit, msg>>
    /\ UNCHANGED <<now, stateFile, cmd, fileAtStart, bankAtStart,
                   tokenVars, requisition, cbResult, listenerVars>>

\* auth.start().await: one request to the provider; on success the link is
\* printed and the handshake is pending
BankStart ==
    /\ pc = "bank_start"
    /\ calls' = [calls EXCEPT !.consent = @ + 1]
    /\ \/ /\ Exit("exit1", "Error starting authorization")
          /\ UNCHANGED auth
       \/ /\ \E h \in PendingHandshakes : auth' = h
          /\ pc' = "bank_wait"
          /\ UNCHANGED <<exit, msg>>
    /\ UNCHANGED <<now, stateFile, bankFile, cmd, fileAtStart, bankAtStart,
                   tokenVars, requisition, cbResult, listenerVars>>

\* Mutant of BankCallback: the error of wait_callback is dropped and the
\* pending requisition is written.
BankCallback_ignoring_error ==
    /\ pc = "bank_callback"
    /\ requisition' = auth
    /\ wbuf' = SerializeBank(auth)
    /\ pc' = "wb_open"
    /\ UNCHANGED <<now, stateFile, bankFile, cmd, exit, msg, calls, fileAtStart,
                   bankAtStart, state, wargs, reply, newState, tokChk, refChk, tokChkAt,
                   refChkAt, auth, cbResult, listenerVars>>

\* auth.wait_callback().await.unwrap_or_else(exit 1), then BankAuthState::new
BankCallback ==
    /\ pc = "bank_callback"
    /\ LET got == wait_callback(cbResult, auth) IN
         IF got.ok
         THEN /\ requisition' = got.requisition
              /\ wbuf' = SerializeBank(got.requisition)
              /\ pc' = "wb_open"
              /\ UNCHANGED <<exit, msg>>
         ELSE /\ Exit("exit1", "Error obtaining bank requisition")
              /\ UNCHANGED <<requisition, wbuf>>
    /\ UNCHANGED <<now, stateFile, bankFile, cmd, calls, fileAtStart, bankAtStart,
                   state, wargs, reply, newState, tokChk, refChk, tokChkAt, refChkAt,
                   auth, cbResult, listenerVars>>

\* write_bank, first half: File::create truncates (or creates) the file
WriteBankOpen ==
    /\ pc = "wb_open"
    /\ \/ /\ bankFile' = <<>>
          /\ pc' = "wb_write"
          /\ UNCHANGED <<exit, msg>>
       \/ /\ Exit("exit1", "Error writing bank state")
          /\ UNCHANGED bankFile
    /\ UNCHANGED <<now, stateFile, cmd, calls, fileAtStart, bankAtStart, tokenVars,
                   bankVars, listenerVars>>

\* write_bank, second half: serde_json::to_writer_pretty, chunk by chunk
WriteBankChunk ==
    /\ pc = "wb_write"
    /\ wbuf # <<>>
    /\ \/ /\ bankFile' = Append(bankFile, Head(wbuf))
          /\ wbuf' = Tail(wbuf)
          /\ IF Tail(wbuf) = <<>>
             THEN Exit("returned", "Successfully authorized with bank!")
             ELSE UNCHANGED <<pc, exit, msg>>
       \/ /\ Exit("exit1", "Error writing bank state")
          /\ UNCHANGED <<bankFile, wbuf>>
    /\ UNCHANGED <<now, stateFile, cmd, calls, fileAtStart, bankAtStart, state,
                   wargs, reply, newState, tokChk, refChk, tokChkAt, refChkAt, bankVars,
                   listenerVars>>

\* ---------------------------------------------------------- specification
TokenNext ==
    \/ Tick
    \/ Interrupt
    \/ StartAuthorize
    \/ AuthExists
    \/ AuthRefreshChk
    \/ AuthTokenChk
    \/ AuthConfig
    \/ AuthRequest
    \/ StartRefresh
    \/ RefLoad
    \/ RefTokenChk
    \/ RefRefreshChk
    \/ RefRequest
    \/ WriteStateOpen
    \/ WriteStateChunk

Spec == Init /\ [][TokenNext]_vars

\* The bank authorization, started with no state file, with a file that does
\* not decode, or with the record of an authorization obtained at time 0.
BankInitialFiles ==
    {NoFile, Garbage} \cup {Serialize(NordigenState("a1", 1, "r1", MaxTTL, 0))}

BankInit ==
    /\ now = 0
    /\ stateFile \in BankInitialFiles
    /\ bankFile = NoFile
    /\ pc = "idle"
    /\ cmd = "none"
    /\ exit = "none"
    /\ msg = ""
    /\ calls = NoCalls
    /\ fileAtStart = stateFile
    /\ bankAtStart = bankFile
    /\ LocalsInit

BankNext ==
    \/ Tick
    \/ Interrupt
    \/ StartBankAuthorize
    \/ BankLoad
    \/ BankTokenChk
    \/ BankStart
    \/ ListenerBind
    \/ ListenerAccept
    \/ ListenerRead
    \/ ListenerRespond
    \/ ListenerReturn
    \/ BankCallback
    \/ WriteBankOpen
    \/ WriteBankChunk

SpecBank == BankInit /\ [][BankNext]_vars

\* ------------------------------------------- the parser on longer queries
\* parse_request and the lookup of ref are pure: they are exercised here on
\* request lines whose query is long enough to hold several pairs, starting
\* from a listener that has just accepted its connection.
MaxQueryLen == 7

QueryAtoms == {"&", "=", "ref", "x"}
\* the queries of up to n symbols, the targets and the request lines that
\* carry them
Queries(n) == {<<>>} \cup SeqsUpTo(QueryAtoms, n)
Paths == {<<>>, <<"x">>}
WideTargets(n) == {p \o <<"?">> \o q : p \in Paths, q \in Queries(n)}
MixedMethods == {<<"G", "e", "t">>, <<"g", "E", "t">>, <<"G", "E", "T", "S">>}

WideRequests(n) == {<< <<m, t, HttpVersion>> >> : m \in Methods, t \in WideTargets(n)}
MixedRequests == {<< <<m, t, HttpVersion>> >> : m \in MixedMethods, t \in Targets}

\* The state of a bank authorization whose listener has accepted a connection
ParseInit ==
    /\ now = 0
    /\ stateFile = Serialize(NordigenState("a1", 1, "r1", MaxTTL, 0))
    /\ bankFile = NoFile
    /\ pc = "bank_wait"
    /\ cmd = "bank_authorize"
    /\ exit = "running"
    /\ msg = ""
    /\ calls = [NoCalls EXCEPT !.consent = 1]
    /\ fileAtStart = stateFile
    /\ bankAtStart = bankFile
    /\ state = Deserialize(stateFile)
    /\ wargs = NoArgs
    /\ reply = NoReply
    /\ newState = Null
    /\ wbuf = <<>>
    /\ tokChk = "no"
    /\ refChk = "na"
    /\ tokChkAt = 0
    /\ refChkAt = 0
    /\ auth = [bank_id |-> "bank1", requisition_id |-> "q1", reference |-> <<"x">>]
    /\ requisition = NoAuth
    /\ cbResult = NoResult
    /\ lpc = "accepted"
    /\ accepted = 1
    /\ request = <<>>
    /\ res = NoResult
    /\ respWritten = FALSE

ParseWide == ListenerReadFrom(WideRequests(MaxQueryLen))
ParseMixed == ListenerReadFrom(MixedRequests)

ParseNext ==
    \/ ListenerRead
    \/ ParseWide
    \/ ParseMixed

SpecParse == ParseInit /\ [][ParseNext]_vars

\* ------------------------------------------------- all commands together
\* Invocations of authorize, refresh and bank authorize in any order on the
\* same two files.  What the client sends matters to the listener only, so
\* the requests are a few: none, a callback with each reference, one without
\* a query.
BriefRequests ==
    {<<>>, << <<GET, <<"x">>, HttpVersion>> >>}
      \cup {<< <<GET, <<"?", "ref", "=">> \o r, HttpVersion>> >> : r \in References}

BriefRead == ListenerReadFrom(BriefRequests)

AllNext ==
    \/ TokenNext
    \/ StartBankAuthorize
    \/ BankLoad
    \/ BankTokenChk
    \/ BankStart
    \/ ListenerBind
    \/ ListenerAccept
    \/ BriefRead
    \/ ListenerRespond
    \/ ListenerReturn
    \/ BankCallback
    \/ WriteBankOpen
    \/ WriteBankChunk

SpecAll == Init /\ [][AllNext]_vars

\* ------------------------------------------- properties of the token flows
Ended == pc = "idle" /\ exit \in {"exit0", "exit1", "returned"}

Corrupt(bytes) == bytes # NoFile /\ ~Decodable(bytes)

IssueFailures == {"Unable to obtain token", "Unable to obtain response value"}

\* C1: a successful refresh leaves the refresh token's expiry instant where
\* it was: the record persisted by the refresh has the same
\* refresh_expires_on as the record loaded before the refresh.
C1_RefreshKeepsRefreshExpiry ==
    (cmd = "refresh" /\ pc = "idle" /\ exit = "returned")
        => /\ Decodable(stateFile)
           /\ refresh_expires_on(Deserialize(stateFile)) = refresh_expires_on(state)

\* C2 (as claimed): a token is reported expired exactly when the clock has
\* reached written_at + ttl (now >= expiry), for the access token and for the
\* refresh token.
C2_ExpiredAtBoundary ==
    /\ tokChk # "na"
          => (tokChk = "yes" <=> tokChkAt >= state.written_at + state.token_expires)
    /\ refChk # "na"
          => (refChk = "yes" <=> refChkAt >= state.written_at + state.refresh_expires)

\* C2 (amended): a token is reported expired exactly when the clock has
\* passed written_at + ttl (now > expiry); at the expiry instant itself it
\* is still reported valid.
C2_ExpiredAfterBoundary ==
    /\ tokChk # "na"
          => (tokChk = "yes" <=> tokChkAt > state.written_at + state.token_expires)
    /\ refChk # "na"
          => (refChk = "yes" <=> refChkAt > state.written_at + state.refresh_expires)

\* C2 witness: the access token was checked at its expiry instant.
C2_Witness ==
    /\ tokChk = "no"
    /\ tokChkAt = state.written_at + state.token_expires
    /\ tokChkAt > 0

\* C3: an invocation killed during authorize or refresh leaves the state
\* file either as it was when the invocation started or holding the
\* complete new record.
C3_AtomicSave ==
    (cmd \in {"authorize", "refresh"} /\ pc = "idle" /\ exit = "killed")
        => \/ stateFile = fileAtStart
           \/ newState # Null /\ stateFile = Serialize(newState)

\* C5: a refresh that finds the access token still valid sends no request,
\* ends with exit code 0 and leaves the state file as it found it.
C5_RefreshValidIsNoop ==
    (cmd = "refresh" /\ tokChk = "no")
        => /\ pc = "idle"
           /\ exit = "exit0"
           /\ calls = NoCalls
           /\ stateFile = fileAtStart

C5_Witness ==
    /\ cmd = "refresh"
    /\ tokChk = "no"
    /\ exit = "exit0"
    /\ Decodable(stateFile)
    /\ now > 0

\* C6 (as claimed): a refresh of a record whose refresh token is expired
\* ends in failure, sends no refresh request and leaves the state file as
\* it found it.
C6_ExpiredRefreshFails ==
    (cmd = "refresh" /\ Ended /\ tokChk # "na"
       /\ is_refresh_expired(state, tokChkAt))
        => /\ exit = "exit1"
           /\ calls.refresh = 0
           /\ stateFile = fileAtStart

\* C6 (amended): a refresh of a record whose refresh token is expired sends
\* no refresh request and leaves the state file as it found it; it ends in
\* failure with the expired message when the access token is expired too,
\* and with exit code 0 (the no-op of C5) when the access token is still
\* valid.
C6_ExpiredRefresh ==
    (cmd = "refresh" /\ tokChk # "na" /\ is_refresh_expired(state, tokChkAt))
        => /\ calls.refresh = 0
           /\ stateFile = fileAtStart
           /\ tokChk = "no" => (pc = "idle" /\ exit = "exit0")
           /\ (tokChk = "yes" /\ Ended)
                 => (exit = "exit1" /\ msg = "Refresh token has expired")
           /\ (tokChk = "yes" /\ refChk # "na") => (refChk = "yes" /\ pc = "idle")

C6_Witness ==
    /\ cmd = "refresh"
    /\ tokChk = "yes"
    /\ refChk = "yes"
    /\ exit = "exit1"
    /\ msg = "Refresh token has expired"

\* C7: with a state file that exists but does not decode, authorize and
\* refresh send no request, leave the file as it is and end with exit code
\* 1; refresh reports a missing file as NotFound and an undecodable one as
\* InvalidData, and authorize fails only on the undecodable one.
C7_CorruptNeverOverwritten ==
    /\ (cmd \in {"authorize", "refresh"} /\ Corrupt(fileAtStart))
          => /\ calls = NoCalls
             /\ stateFile = fileAtStart
             /\ Ended => exit = "exit1"
             /\ (Ended /\ cmd = "refresh") => msg = "InvalidData"
             /\ (Ended /\ cmd = "authorize") => msg = "Error obtaining on-disk state"
    /\ (cmd = "refresh" /\ fileAtStart = NoFile /\ Ended)
          => (exit = "exit1" /\ msg = "NotFound" /\ stateFile = NoFile)
    /\ (cmd = "authorize" /\ fileAtStart = NoFile /\ Ended)
          => msg # "Error obtaining on-disk state"

C7_Witness ==
    /\ cmd = "authorize"
    /\ Corrupt(fileAtStart)
    /\ Len(fileAtStart) > 1
    /\ exit = "exit1"

\* C8: an authorize that finds a decodable record whose refresh token is
\* not expired sends no request and leaves the state file as it found it;
\* it ends with exit code 0 and the message telling which state it found.
C8_AuthorizeKeepsValidRecord ==
    (cmd = "authorize" /\ refChk = "no")
        => /\ calls = NoCalls
           /\ stateFile = fileAtStart
           /\ Ended => exit = "exit0"
           /\ tokChk = "yes"
                 => (pc = "idle" /\ msg = "Access token expired. Please refresh!")
           /\ tokChk = "no"
                 => (pc = "idle" /\ msg = "Authorization still valid")

C8_Witness ==
    /\ cmd = "authorize"
    /\ refChk = "no"
    /\ tokChk = "yes"
    /\ exit = "exit0"

\* C9: an authorize whose token request fails ends with exit code 1 after
\* that one request, and the state file is as it was: an old record is
\* kept, and no file is created where none was.
C9_FailedIssuePersistsNothing ==
    (cmd = "authorize" /\ pc = "idle" /\ exit = "exit1" /\ msg \in IssueFailures)
        => /\ stateFile = fileAtStart
           /\ calls.issue = 1
           /\ newState = Null

C9_Witness ==
    /\ cmd = "authorize"
    /\ exit = "exit1"
    /\ msg \in IssueFailures
    /\ Decodable(fileAtStart)
    /\ refChk = "yes"

\* ----------------------------------- properties of the bank authorization
\* C4: when the listener has returned and its result is not the reference
\* issued at the start of the consent (another reference, or an error), the
\* bank file stays as it was and the command ends with exit code 1.
C4_MismatchNotPersisted ==
    (cmd = "bank_authorize" /\ lpc = "done"
       /\ ~(cbResult.ok /\ cbResult.val = auth.reference))
        => /\ bankFile = bankAtStart
           /\ requisition = NoAuth
           /\ pc \in {"bank_callback", "idle"}
           /\ Ended => (exit = "exit1" /\ msg = "Error obtaining bank requisition")

C4_Witness ==
    /\ cmd = "bank_authorize"
    /\ lpc = "done"
    /\ cbResult.ok
    /\ cbResult.val # auth.reference
    /\ cbResult.val # <<>>
    /\ exit = "exit1"
    /\ bankAtStart # NoFile

\* C10: whenever the listener has returned a result, it has written the
\* confirmation response on the one connection it accepted, whatever the
\* outcome of parsing the request was.
C10_ResponseBeforeReturn ==
    /\ lpc \in {"responded", "done"} => (respWritten /\ accepted = 1)
    /\ cbResult # NoResult => (lpc = "done" /\ respWritten)
    /\ lpc \in {"off", "listening", "accepted", "parsed"} => ~respWritten

C10_Witness ==
    /\ lpc = "done"
    /\ ~cbResult.ok
    /\ cbResult.err = "No parameters provided!"
    /\ respWritten

\* ------------------------------------------- the request the listener read
\* The request line of a parsed request, its method and its target
ParsedLine == request[1]
ParsedMethod == ParsedLine[1]
ParsedTarget == ParsedLine[2]

\* One request line of method, target and version has been read and parsed
LineParsed == lpc = "parsed" /\ Len(request) = 1 /\ Len(ParsedLine) = 3

\* The target carries a query string: what follows its first "?"
HasQuery(t) == \E i \in 1..Len(t) : t[i] = "?"
QueryOf(t) ==
    LET first == CHOOSE i \in 1..Len(t) : t[i] = "?" /\ \A j \in 1..(i - 1) : t[j] # "?"
    IN  SubSeq(t, first + 1, Len(t))

\* q[i..j] is a pair ref=<value> of the query q: it lies between two "&" (or
\* the ends of the query), starts with ref and "=", and has no other "="
RefPairAt(q, i, j) ==
    /\ i + 1 <= j
    /\ i = 1 \/ q[i - 1] = "&"
    /\ j = Len(q) \/ q[j + 1] = "&"
    /\ q[i] = "ref"
    /\ q[i + 1] = "="
    /\ \A k \in (i + 2)..j : q[k] \notin {"&", "="}

RefPairs(q) == {p \in (1..Len(q)) \X (1..Len(q)) : RefPairAt(q, p[1], p[2])}
RefValue(q, p) == SubSeq(q, p[1] + 2, p[2])
LastRefPair(q) == CHOOSE p \in RefPairs(q) : \A o \in RefPairs(q) : o[1] <= p[1]

\* the method spells get in some mix of upper and lower case
SpellsGet(m) ==
    /\ Len(m) = 3
    /\ m[1] \in {"G", "g"}
    /\ m[2] \in {"E", "e"}
    /\ m[3] \in {"T", "t"}

\* C11 as stated: a GET request whose query holds a well-formed pair
\* ref=<value> makes the listener return Ok(<value>), for every such pair of
\* the query.
C11_ReturnsEveryRefValue ==
    (LineParsed /\ ParsedMethod = GET /\ HasQuery(ParsedTarget)) =>
        \A p \in RefPairs(QueryOf(ParsedTarget)) :
            res.ok /\ res.val = RefValue(QueryOf(ParsedTarget), p)

\* C11 (amended): a GET request line whose query holds well-formed pairs
\* ref=<value> makes the listener return Ok of the value of the last of them.
C11_ReturnsLastRefValue ==
    (LineParsed /\ ParsedMethod = GET /\ HasQuery(ParsedTarget)
       /\ RefPairs(QueryOf(ParsedTarget)) # {}) =>
        /\ res.ok
        /\ res.val = RefValue(QueryOf(ParsedTarget), LastRefPair(QueryOf(ParsedTarget)))

\* a GET request with two ref pairs of different values, and another pair
\* or a ref pair among other pairs, has been answered Ok
C11_Witness ==
    /\ LineParsed
    /\ ParsedMethod = GET
    /\ HasQuery(ParsedTarget)
    /\ \E p, o \in RefPairs(QueryOf(ParsedTarget)) :
          RefValue(QueryOf(ParsedTarget), p) # RefValue(QueryOf(ParsedTarget), o)
    /\ res.ok

\* C12 as stated: a request whose method token is anything other than GET is
\* never answered Ok.
C12_NonGetRejected ==
    (lpc = "parsed" /\ Len(request) = 1 /\ Len(ParsedLine) >= 1 /\ ParsedMethod # GET) =>
        ~res.ok

\* C12 (amended): the method is compared without regard to letter case: a
\* request line whose method does not spell get in any case is refused with
\* "Unexpected method" whatever its target, and one that does is treated as
\* GET.
C12_NonGetAnyCaseRejected ==
    LineParsed =>
        /\ ~SpellsGet(ParsedMethod) => (~res.ok /\ res.err = "Unexpected method")
        /\ (SpellsGet(ParsedMethod) /\ HasQuery(ParsedTarget)
              /\ RefPairs(QueryOf(ParsedTarget)) # {}) => res.ok

\* a request that is not a GET in any case and carries a valid ref pair has
\* been refused
C12_Witness ==
    /\ LineParsed
    /\ ~SpellsGet(ParsedMethod)
    /\ HasQuery(ParsedTarget)
    /\ RefPairs(QueryOf(ParsedTarget)) # {}
    /\ ~res.ok

\* C13: the listener answers Ok only for a request line whose query holds a
\* ref pair; a (GET) target without "?" fails with "No parameters provided!"
\* and a query without a ref pair fails with "Callback did not provide ref".
C13_OkOnlyWithRef ==
    lpc = "parsed" =>
        /\ res.ok => /\ LineParsed
                     /\ HasQuery(ParsedTarget)
                     /\ RefPairs(QueryOf(ParsedTarget)) # {}
        /\ (LineParsed /\ SpellsGet(ParsedMethod) /\ ~HasQuery(ParsedTarget)) =>
              (~res.ok /\ res.err = "No parameters provided!")
        /\ (LineParsed /\ SpellsGet(ParsedMethod) /\ HasQuery(ParsedTarget)
              /\ RefPairs(QueryOf(ParsedTarget)) = {}) =>
              (~res.ok /\ res.err = "Callback did not provide ref")

\* a GET request with a query of several symbols, none of them a ref pair,
\* has been refused for the missing ref
C13_Witness ==
    /\ LineParsed
    /\ ParsedMethod = GET
    /\ HasQuery(ParsedTarget)
    /\ Len(QueryOf(ParsedTarget)) >= 3
    /\ RefPairs(QueryOf(ParsedTarget)) = {}
    /\ res.err = "Callback did not provide ref"

\* ------------------------------------------------- the bank authorization
\* C14: one listener accepts exactly one connection: none before it listens,
\* one from the accept on, and once that connection is being processed or
\* has been processed (Ok or Err) no further accept is possible.
C14_SingleConnection ==
    /\ accepted <= 1
    /\ lpc \in {"off", "listening"} => accepted = 0
    /\ lpc \in {"accepted", "stalled", "parsed", "responded", "done"} =>
          (accepted = 1 /\ ~ENABLED ListenerAccept)

\* the listener has returned an error after processing its one connection
C14_Witness ==
    /\ lpc = "done"
    /\ accepted = 1
    /\ cbResult # NoResult
    /\ ~cbResult.ok
    /\ exit = "exit1"

\* C15 as stated: a callback port already in use ends the invocation with a
\* typed failure (an error exit, not a panic) and without a bank record.
C15_BindErrorIsTyped ==
    (cmd = "bank_authorize" /\ pc = "idle" /\ msg = "bind failed") =>
        (exit = "exit1" /\ bankFile = bankAtStart)

\* The record write_bank is writing or has written: a prefix of it
BankRecordPrefixes(b) ==
    {SubSeq(SerializeBank(b), 1, n) : n \in 0..Len(SerializeBank(b))}

\* The handshake ended before the listener returned a reference
HandshakeFailures ==
    {"Error starting authorization", "bind failed", "read failed",
     "Error obtaining bank requisition"}

\* C16: the bank file is touched only after the listener has returned Ok with
\* the issued reference, and then holds the one record being written; a
\* failed start, a failed listener, and a kill before the callback leave it
\* as it was.
C16_NoRecordBeforeCallback ==
    cmd = "bank_authorize" =>
        /\ bankFile # bankAtStart =>
              /\ lpc = "done"
              /\ cbResult.ok
              /\ cbResult.val = auth.reference
              /\ requisition = auth
              /\ pc \in {"wb_write", "idle"}
              /\ bankFile \in BankRecordPrefixes(requisition)
        /\ (pc = "idle" /\ msg \in HandshakeFailures) => bankFile = bankAtStart
        /\ (pc = "idle" /\ exit = "killed" /\ lpc # "done") => bankFile = bankAtStart

\* the consent was started and the process was killed while the listener
\* waited for the callback
C16_Witness ==
    /\ cmd = "bank_authorize"
    /\ pc = "idle"
    /\ exit = "killed"
    /\ calls.consent = 1
    /\ lpc \in {"listening", "accepted", "stalled"}
    /\ bankFile = bankAtStart

\* The steps the listener takes on its own once a
\* connection is accepted
ListenerProgress ==
    \/ ListenerRead
    \/ ListenerRespond
    \/ ListenerReturn

\* C19 as stated: once a connection is accepted the listener is never
\* blocked and ends by returning (Done), whatever the client sends or does
\* not send.
C19_AcceptedReachesDone ==
    /\ (pc = "bank_wait" /\ accepted = 1) => ENABLED ListenerProgress
    /\ (cmd = "bank_authorize" /\ accepted = 1 /\ pc = "idle" /\ exit # "killed") =>
          lpc = "done"

\* ------------------------------------------------- the credential record
\* C17: the record a successful refresh leaves in the state file has the
\* access token and ttl of the provider's reply and the refresh token and
\* refresh ttl of the record loaded before the refresh.
C17_RefreshKeepsRefreshToken ==
    (cmd = "refresh" /\ pc = "idle" /\ exit = "returned") =>
        /\ Decodable(fileAtStart)
        /\ state = Deserialize(fileAtStart)
        /\ Decodable(stateFile)
        /\ Deserialize(stateFile).token = reply.access
        /\ Deserialize(stateFile).token_expires = reply.access_expires
        /\ Deserialize(stateFile).refresh_token = state.refresh_token
        /\ Deserialize(stateFile).refresh_expires = state.refresh_expires

\* a refresh has replaced the access token by another one, whose ttl is not
\* the refresh ttl of the loaded record
C17_Witness ==
    /\ cmd = "refresh"
    /\ pc = "idle"
    /\ exit = "returned"
    /\ reply.access # state.token
    /\ reply.access_expires # state.refresh_expires

\* C18: a refresh that finds no state file, or one that does not decode,
\* ends in the loading step with the state error: no request is sent and the
\* state location is as it was found.
C18_RefreshNeedsRecord ==
    (cmd = "refresh" /\ (fileAtStart = NoFile \/ Corrupt(fileAtStart))) =>
        /\ pc \in {"ref_load", "idle"}
        /\ calls = NoCalls
        /\ reply = NoReply
        /\ state = Null
        /\ stateFile = fileAtStart
        /\ (pc = "idle" /\ exit # "killed") =>
              /\ exit = "exit1"
              /\ msg = IF fileAtStart = NoFile THEN "NotFound" ELSE "InvalidData"

\* a refresh has ended on a missing state file
C18_Witness ==
    /\ cmd = "refresh"
    /\ fileAtStart = NoFile
    /\ pc = "idle"
    /\ exit = "exit1"
    /\ msg = "NotFound"

\* C20: the record write_state has saved is read back by get_state equal, in
\* every field, to the record that was saved, whose tokens and ttls are the
\* arguments of write_state.
C20_SaveLoadRoundTrip ==
    (cmd \in {"authorize", "refresh"} /\ pc = "idle" /\ exit = "returned") =>
        /\ get_state(stateFile).ok
        /\ get_state(stateFile).state = newState
        /\ newState.token = wargs.token
        /\ newState.token_expires = wargs.token_ttl
        /\ newState.refresh_token = wargs.refresh
        /\ newState.refresh_expires = wargs.refresh_ttl
        /\ newState.written_at \in 0..now

\* a record whose two ttls differ, written after time 0, has been saved
C20_Witness ==
    /\ cmd = "authorize"
    /\ pc = "idle"
    /\ exit = "returned"
    /\ newState.token_expires # newState.refresh_expires
    /\ newState.written_at > 0
    /\ stateFile = Serialize(newState)

\* ------------------------------------------------ the flows as sequences
\* The messages of a provider request that failed
RequestFailures ==
    IssueFailures \cup {"Unable to refresh token", "Error starting authorization"}

\* C21: in one invocation each provider endpoint is requested at most once,
\* and only the endpoint of the command; a request that failed has ended the
\* invocation with exit code 1 after that one request.
C21_NoRetries ==
    /\ calls.issue <= 1
    /\ calls.refresh <= 1
    /\ calls.consent <= 1
    /\ calls.issue = 1 => (cmd = "authorize" /\ calls.refresh = 0 /\ calls.consent = 0)
    /\ calls.refresh = 1 => (cmd = "refresh" /\ calls.issue = 0 /\ calls.consent = 0)
    /\ calls.consent = 1 => (cmd = "bank_authorize" /\ calls.issue = 0 /\ calls.refresh = 0)
    /\ msg \in RequestFailures =>
          /\ pc = "idle"
          /\ exit = "exit1"
          /\ calls.issue + calls.refresh + calls.consent = 1

\* a refresh request has failed and the invocation has ended
C21_Witness ==
    /\ cmd = "refresh"
    /\ pc = "idle"
    /\ exit = "exit1"
    /\ msg = "Unable to refresh token"
    /\ calls.refresh = 1

\* C22: every step that changes the state file is taken after the issue or
\* refresh request of the invocation has returned a reply, with the tokens of
\* that reply to write; the listener is bound only when the consent has been
\* started and the handshake is pending; every step that changes the bank
\* file is taken after the listener has returned the callback.
C22_StrictOrder ==
    [][ /\ stateFile' # stateFile =>
              /\ reply # NoReply
              /\ calls.issue + calls.refresh = 1
              /\ wargs.token = reply.access
        /\ (lpc # "listening" /\ lpc' = "listening") =>
              /\ calls.consent = 1
              /\ auth \in PendingHandshakes
        /\ bankFile' # bankFile =>
              /\ lpc = "done"
              /\ cbResult # NoResult
              /\ requisition = auth
      ]_vars

\* a bank record has been written in full next to a token record written by
\* an earlier invocation
C22_Witness ==
    /\ cmd = "bank_authorize"
    /\ pc = "idle"
    /\ exit = "returned"
    /\ bankFile = SerializeBank(auth)
    /\ Decodable(stateFile)
    /\ Deserialize(stateFile).written_at > 0

\* ------------------------------------------------- the pieces of a query
\* q[i..j] is a piece of the query q: it lies between two "&" or the ends
PieceAt(q, i, j) ==
    /\ i <= j
    /\ i = 1 \/ q[i - 1] = "&"
    /\ j = Len(q) \/ q[j + 1] = "&"
    /\ \A k \in i..j : q[k] # "&"

Pieces(q) == {p \in (1..Len(q)) \X (1..Len(q)) : PieceAt(q, p[1], p[2])}
EqualSigns(q, p) == {k \in p[1]..p[2] : q[k] = "="}
\* the pieces with exactly one "=": a key (maybe empty) and a value
PairPieces(q) == {p \in Pieces(q) : Cardinality(EqualSigns(q, p)) = 1}
EqualSignOf(q, p) == CHOOSE k \in EqualSigns(q, p) : TRUE
KeyOf(q, p) == SubSeq(q, p[1], EqualSignOf(q, p) - 1)
ValueOf(q, p) == SubSeq(q, EqualSignOf(q, p) + 1, p[2])

\* C23: whatever pieces the query of a GET line holds, parsing succeeds; the
\* keys of the map are the keys of the pieces with exactly one "=", each
\* with the value of the last such piece of that key (pieces with no "=" or
\* with several contribute nothing), and the listener answers Ok exactly
\* when ref is among them.
C23_LenientQuery ==
    (LineParsed /\ SpellsGet(ParsedMethod) /\ HasQuery(ParsedTarget)) =>
        LET q == QueryOf(ParsedTarget)
            parsed == parse_request(request)
            pairs == PairPieces(q)
        IN  /\ parsed.ok
            /\ DOMAIN parsed.map = {KeyOf(q, p) : p \in pairs}
            /\ \A p \in pairs :
                  (\A o \in pairs : KeyOf(q, o) = KeyOf(q, p) => o[1] <= p[1]) =>
                      parsed.map[KeyOf(q, p)] = ValueOf(q, p)
            /\ res.ok = (<<"ref">> \in DOMAIN parsed.map)

\* a GET line whose query holds a piece with several "=", then a ref pair,
\* has been answered Ok
C23_Witness ==
    /\ LineParsed
    /\ ParsedMethod = GET
    /\ HasQuery(ParsedTarget)
    /\ \E p \in Pieces(QueryOf(ParsedTarget)), r \in RefPairs(QueryOf(ParsedTarget)) :
          /\ Cardinality(EqualSigns(QueryOf(ParsedTarget), p)) >= 2
          /\ p[2] < r[1]
    /\ res.ok

\* ------------------------------------------- the record after authorize
\* C24: an authorize that found no state file, or a record whose refresh
\* token had expired, succeeds only by completing the write; the step that
\* completes it is taken in those two cases only, after one issue request,
\* and leaves as the record exactly the tokens and ttls of the provider's
\* reply, stamped with the time of the write.
C24_EnsureReplacesRecord ==
    [][ /\ (cmd = "authorize" /\ pc # "idle" /\ pc' = "idle"
               /\ exit' \in {"exit0", "returned"}
               /\ (fileAtStart = NoFile \/ refChk' = "yes")) =>
            (pc = "ws_write" /\ exit' = "returned")
        /\ (cmd = "authorize" /\ pc = "ws_write" /\ pc' = "idle" /\ exit' = "returned") =>
            /\ \/ fileAtStart = NoFile
               \/ /\ Decodable(fileAtStart)
                  /\ state = Deserialize(fileAtStart)
                  /\ refChk = "yes"
            /\ calls.issue = 1
            /\ Decodable(stateFile')
            /\ Deserialize(stateFile') =
                  NordigenState(reply.access, reply.access_expires,
                                reply.refresh, reply.refresh_expires, now)
      ]_vars

\* an authorize has replaced a record whose refresh token had expired by
\* other tokens, written later than the expiry was checked
C24_Witness ==
    /\ cmd = "authorize"
    /\ pc = "idle"
    /\ exit = "returned"
    /\ Decodable(fileAtStart)
    /\ refChk = "yes"
    /\ reply.access # state.token
    /\ reply.refresh # state.refresh_token
    /\ Decodable(stateFile)
    /\ Deserialize(stateFile).written_at > refChkAt

\* ------------------------------------------------ the record after refresh
RefreshFailures == {"Unable to refresh token", "Unable to obtain response value"}

\* C25: a refresh whose request failed (it was sent because the access token
\* had expired and the refresh token had not) has ended with exit code 1,
\* and the state file is the one it found, still decoding to the record it
\* loaded.
C25_FailedRefreshKeepsRecord ==
    (cmd = "refresh" /\ msg \in RefreshFailures) =>
        /\ pc = "idle"
        /\ exit = "exit1"
        /\ tokChk = "yes"
        /\ refChk = "no"
        /\ calls.refresh = 1
        /\ reply = NoReply
        /\ stateFile = fileAtStart
        /\ Decodable(stateFile)
        /\ Deserialize(stateFile) = state

\* the reply to a refresh request did not decode
C25_Witness ==
    /\ cmd = "refresh"
    /\ pc = "idle"
    /\ exit = "exit1"
    /\ msg = "Unable to obtain response value"
    /\ calls.refresh = 1
    /\ stateFile = fileAtStart

\* --------------------------------------------- the gate of the bank flow
\* C26: a bank authorization that finds no state file, one that does not
\* decode, or a record whose access token has expired, ends with exit code 1
\* in the loading step or the token check: no consent is started, the
\* listener is not bound, and both files are as they were found.  The token
\* check is the expiry of the loaded record at the time of the check.
C26_BankNeedsValidToken ==
    cmd = "bank_authorize" =>
        /\ tokChk # "na" =>
              /\ Decodable(fileAtStart)
              /\ state = Deserialize(fileAtStart)
              /\ tokChk = YesNo(token_expires_on(state) < tokChkAt)
        /\ (fileAtStart = NoFile \/ Corrupt(fileAtStart) \/ tokChk = "yes") =>
              /\ pc \in {"bank_load", "idle"}
              /\ calls = NoCalls
              /\ auth = NoAuth
              /\ lpc = "off"
              /\ accepted = 0
              /\ stateFile = fileAtStart
              /\ bankFile = bankAtStart
              /\ (pc = "idle" /\ exit # "killed") =>
                    /\ exit = "exit1"
                    /\ msg = IF fileAtStart = NoFile THEN "NotFound"
                             ELSE IF Corrupt(fileAtStart) THEN "InvalidData"
                             ELSE "Token has expired"

\* a bank authorization has been refused for its expired access token
C26_Witness ==
    /\ cmd = "bank_authorize"
    /\ pc = "idle"
    /\ exit = "exit1"
    /\ tokChk = "yes"
    /\ msg = "Token has expired"
    /\ calls.consent = 0

====
